---- MODULE Spec2Model ----
(***************************************************************************)
(* Model of the momentum-stock-replay front end:                           *)
(*   - src/app/src/utils/api.js: the tick decoder (parseBinaryData), the   *)
(*     level-2 decoder (parseBinaryLevel2Data) and the timestamp           *)
(*     synthesizer (preprocessTimestamps), run in sequence by              *)
(*     api.loadSessionData;                                                *)
(*   - src/unnamed/part_000 (the ChartArea component): the aggregation     *)
(*     and EMA refs and the three effects that maintain them.              *)
(*                                                                         *)
(* Units.  Times keep the program's units: microseconds in the tick file,  *)
(* milliseconds in a decoded tick's ISO timestamp, and an                  *)
(* adjustedTimestamp s + ms/1000 (float seconds with a millisecond         *)
(* fraction) is held as the integer s*1000 + ms.  A decimal string         *)
(* x.toFixed(n) is held as its sign, integer part and fractional digits.   *)
(***************************************************************************)
EXTENDS Integers, Sequences, FiniteSets, TLC

VARIABLES
    buffer,         \* the decompressed bytes handed to parseBinaryData
    encoded,        \* what the bytes were generated from (never read by the program)
    loadPc,         \* position of loadSessionData: "fetched", "parsed", "failed", "done"
    loadError,      \* the exception parseBinaryData raised, "none" if none
    parsedData,     \* parseBinaryData's return value
    processedData,  \* preprocessTimestamps' return value
    l2Response,     \* the level-2 fetch: "ok", "notOk" (l2Response.ok false) or "rejected"
    l2Buffer,       \* the decompressed bytes handed to parseBinaryLevel2Data
    l2Encoded,      \* what those bytes were generated from (never read by the program)
    l2Pc,           \* the try block of lines 73-84: "pending", "skipped", "decoded", "caught"
    l2Error,        \* the error the catch of line 82 was handed, "none" if none
    level2Data,     \* the local level2Data: <<>> while null, <<entries>> once assigned
    attachedLevel2, \* processedData.level2Data: <<>> while the property is absent
    timeframe,              \* the timeframe prop, seconds
    quote,                  \* sessionData.quote, <<>> while there is none
    quoteCount,             \* sessionData.stats?.quoteCount || 0
    lastQuoteCountRef,      \* lastQuoteCountRef.current
    allTicksData,           \* allTicksData.current
    aggregatedLineData,     \* aggregatedLineData.current: bid, ask and mid series
    aggregatedCandleData,   \* aggregatedCandleData.current
    emaData,                \* emaData.current: the ema9 and ema20 series
    delivered               \* the quotes delivered since the last reset (never read by the program)

loadVars == <<buffer, encoded, loadPc, loadError, parsedData, processedData,
              l2Response, l2Buffer, l2Encoded, l2Pc, l2Error, level2Data,
              attachedLevel2>>

chartVars == <<timeframe, quote, quoteCount, lastQuoteCountRef, allTicksData,
               aggregatedLineData, aggregatedCandleData, emaData, delivered>>

vars == <<loadVars, chartVars>>

(***************************************************************************)
(* Bounds of the generated inputs.                                         *)
(***************************************************************************)
MaxRows == 3

MaxBurst == 38

MaxTicks == 4

TieBurst == 1001

(***************************************************************************)
(* Program constants.                                                      *)
(***************************************************************************)
HeaderSize == 17

rowSize == 24

MsPerSecond == 1000

UsPerMs == 1000

Magic == <<84, 73, 67, 75>>   \* "TICK"

(***************************************************************************)
(* Integer helpers.                                                        *)
(***************************************************************************)
\* ToIntegerOrInfinity(a / b) for b > 0: the quotient truncated toward zero
TruncDiv(a, b) == IF a >= 0 THEN a \div b ELSE -((-a) \div b)

RECURSIVE Pow2(_)
Pow2(n) == IF n = 0 THEN 1 ELSE 2 * Pow2(n - 1)

RECURSIVE FloorLog2(_)
FloorLog2(n) == IF n <= 1 THEN 0 ELSE 1 + FloorLog2(n \div 2)

IsPow2(n) == n = Pow2(FloorLog2(n))

\* (a * 2^n) mod k
RECURSIVE MulPow2Mod(_, _, _)
MulPow2Mod(a, n, k) == IF n = 0 THEN a % k ELSE MulPow2Mod((2 * a) % k, n - 1, k)

(***************************************************************************)
(* DataView reads, little-endian.  A read outside the view raises a        *)
(* RangeError; InBounds is the condition under which it does not.          *)
(***************************************************************************)
InBounds(buf, offset, size) == offset + size <= Len(buf)

RECURSIVE UnsignedLE(_, _, _)
UnsignedLE(buf, offset, size) ==
    IF size = 0 THEN 0
    ELSE buf[offset + 1] + 256 * UnsignedLE(buf, offset + 1, size - 1)

RECURSIVE ComplementLE(_, _, _)
ComplementLE(buf, offset, size) ==
    IF size = 0 THEN 0
    ELSE (255 - buf[offset + 1]) + 256 * ComplementLE(buf, offset + 1, size - 1)

\* two's complement: the top bit of the last byte is the sign
SignedLE(buf, offset, size) ==
    IF buf[offset + size] >= 128 THEN -(ComplementLE(buf, offset, size) + 1)
    ELSE UnsignedLE(buf, offset, size)

getUint8(buf, offset) == UnsignedLE(buf, offset, 1)

getUint32(buf, offset) == UnsignedLE(buf, offset, 4)

getBigUint64(buf, offset) == UnsignedLE(buf, offset, 8)

getInt32(buf, offset) == SignedLE(buf, offset, 4)

getBigInt64(buf, offset) == SignedLE(buf, offset, 8)

(***************************************************************************)
(* parseBinaryData (api.js 128-206).                                       *)
(***************************************************************************)
PRICE_SCALE == 100000

SIZE_SCALE == 100

\* (scaled / scale).toFixed(digits): the decimal string, held as its sign,
\* integer part and fractional digits
ToFixed(scaled, scale) ==
    LET abs == IF scaled < 0 THEN -scaled ELSE scaled
    IN  [neg |-> scaled < 0, int |-> abs \div scale, frac |-> abs % scale]

\* new Date(Number(us) / 1000).toISOString(): the time in whole milliseconds
\* (the Date constructor truncates its argument toward zero)
ToISOString(absoluteTimestampUs) == TruncDiv(absoluteTimestampUs, UsPerMs)

\* the five reads of one row, lines 166-170
RowReadable(buf, rowOffset) ==
    /\ InBounds(buf, rowOffset, 8)
    /\ InBounds(buf, rowOffset + 8, 4)
    /\ InBounds(buf, rowOffset + 12, 4)
    /\ InBounds(buf, rowOffset + 16, 4)
    /\ InBounds(buf, rowOffset + 20, 4)

\* lines 173-177: the row's delta is added to the header's initial timestamp
AbsoluteTimestampUs(initialTimestampUs, deltaTimeUs) ==
    initialTimestampUs + deltaTimeUs

\* lines 166-196: the tick pushed for the row at rowOffset
DecodeRow(buf, rowOffset, initialTimestampUs) ==
    LET deltaTimeUs == getBigInt64(buf, rowOffset)
        priceBidScaled == getInt32(buf, rowOffset + 8)
        priceAskScaled == getInt32(buf, rowOffset + 12)
        sizeBidScaled == getInt32(buf, rowOffset + 16)
        sizeAskScaled == getInt32(buf, rowOffset + 20)
    IN  [timestamp |-> ToISOString(AbsoluteTimestampUs(initialTimestampUs, deltaTimeUs)),
         priceBid |-> ToFixed(priceBidScaled, PRICE_SCALE),
         priceAsk |-> ToFixed(priceAskScaled, PRICE_SCALE),
         sizeBid |-> ToFixed(sizeBidScaled, SIZE_SCALE),
         sizeAsk |-> ToFixed(sizeAskScaled, SIZE_SCALE)]

\* a decoder that stops at the first unreadable row and keeps what it has
RowOutOfBounds_KeepPartial(data) == [error |-> "none", data |-> data]

\* what a row whose reads leave the view does: the RangeError leaves the
\* function, and the rows pushed so far go with it
RowOutOfBounds(data) == [error |-> "RangeError", data |-> <<>>]

\* the for loop, lines 161-197: rows 0 .. numRows-1 are decoded and pushed in
\* order, up to the first one whose reads leave the view
ParseRows(buf, offset, numRows, initialTimestampUs) ==
    LET rowOffset(i) == offset + i * rowSize
        unreadable == {i \in 0..(numRows - 1) : ~RowReadable(buf, rowOffset(i))}
        firstUnreadable == CHOOSE i \in unreadable : \A j \in unreadable : i <= j
        pushed(n) == [k \in 1..n |-> DecodeRow(buf, rowOffset(k - 1), initialTimestampUs)]
    IN  IF unreadable = {} THEN [error |-> "none", data |-> pushed(numRows)]
        ELSE RowOutOfBounds(pushed(firstUnreadable))

\* lines 137-148: the header is read in full before the magic is looked at
HeaderReadable(buf) ==
    /\ InBounds(buf, 0, 4)
    /\ InBounds(buf, 4, 1)
    /\ InBounds(buf, 5, 4)
    /\ InBounds(buf, 9, 8)

\* a check of the first byte of the magic alone
MagicMatches_FirstByte(buf) == buf[1] = Magic[1]

\* line 153
MagicMatches(buf) == SubSeq(buf, 1, 4) = Magic

\* a loop that stops one row short
parseBinaryData_OneShort(buf) ==
    IF ~HeaderReadable(buf) THEN [error |-> "RangeError", data |-> <<>>]
    ELSE IF ~MagicMatches(buf) THEN [error |-> "FormatError", data |-> <<>>]
    ELSE ParseRows(buf, HeaderSize, getUint32(buf, 5) - 1, getBigUint64(buf, 9))

parseBinaryData(buf) ==
    IF ~HeaderReadable(buf) THEN [error |-> "RangeError", data |-> <<>>]
    ELSE IF ~MagicMatches(buf) THEN [error |-> "FormatError", data |-> <<>>]
    ELSE ParseRows(buf, HeaderSize, getUint32(buf, 5), getBigUint64(buf, 9))

(***************************************************************************)
(* preprocessTimestamps (api.js 290-351).                                  *)
(***************************************************************************)
\* line 303: Math.floor(date.getTime() / 1000)
SecondOf(tick) == tick.timestamp \div MsPerSecond

\* Math.floor(index * (1000 / tickCount)), lines 327 and 330, in IEEE-754
\* double arithmetic.  msIncrement is 1000/tickCount rounded to 53 bits:
\* with e1 = floor(log2(1000/tickCount)) and s = 52 - e1 it is q / 2^s, q the
\* integer nearest to 1000 * 2^s / tickCount (no tie can occur).  With
\* r = (1000 * 2^s) mod tickCount, q lies r/tickCount below the quotient when
\* 2r < tickCount and (tickCount - r)/tickCount above it otherwise.  The
\* product index * msIncrement is rounded to 53 bits again.  When
\* index * 1000 / tickCount is not an integer the errors (below 2^-40) cannot
\* carry the product across an integer.  When it is an integer m and
\* msIncrement was rounded down, the product is m - index*r/(tickCount*2^s),
\* which rounds to the double below m, that is floors to m - 1, exactly when
\* that shortfall exceeds half the spacing of the doubles below m:
\* 2^(em - 53) with em = floor(log2 m), or 2^(em - 54) when m is a power of 2.
FloatShortfall(index, tickCount) ==
    LET m == (index * MsPerSecond) \div tickCount
        e1 == IF tickCount <= MsPerSecond
              THEN FloorLog2(MsPerSecond \div tickCount)
              ELSE -(FloorLog2((tickCount - 1) \div MsPerSecond) + 1)
        r == MulPow2Mod(MsPerSecond, 52 - e1, tickCount)
        em == FloorLog2(m)
        half == IF IsPow2(m) THEN Pow2(em - e1) ELSE Pow2(em - e1 + 1)
    IN  /\ index > 0
        /\ (index * MsPerSecond) % tickCount = 0
        /\ 2 * r < tickCount
        /\ 4 * index * r > tickCount * half

\* offsets kept to the hundredth of a second
MsOffset_Coarse(index, tickCount) == ((index * 100) \div tickCount) * 10

\* offsets spread over the whole second, its end included
MsOffset_Inclusive(index, tickCount) == (index * MsPerSecond) \div (tickCount - 1)

MsOffset(index, tickCount) ==
    IF FloatShortfall(index, tickCount)
    THEN (index * MsPerSecond) \div tickCount - 1
    ELSE (index * MsPerSecond) \div tickCount

\* lines 296-310: the keys of ticksBySecond in insertion order, that is the
\* seconds in order of first appearance
SecondKeys(data) ==
    LET opensGroup(j) == \A i \in 1..(j - 1) : SecondOf(data[i]) # SecondOf(data[j])
        firsts == SelectSeq([j \in 1..Len(data) |-> j], opensGroup)
    IN  [p \in 1..Len(firsts) |-> SecondOf(data[firsts[p]])]

\* ticksBySecond.get(second): the ticks of that second in arrival order
TicksOfSecond(data, second) == SelectSeq(data, LAMBDA tick : SecondOf(tick) = second)

\* the single-tick branch taken for every group
AdjustGroup_FirstOnly(ticks, secondTimestamp) ==
    <<ticks[1] @@ ("adjustedTimestamp" :> secondTimestamp * MsPerSecond)>>

\* lines 316-338: the entries pushed for one second
AdjustGroup(ticks, secondTimestamp) ==
    LET tickCount == Len(ticks)
    IN  [index \in 1..tickCount |->
            ticks[index] @@
            ("adjustedTimestamp" :>
                IF tickCount = 1 THEN secondTimestamp * MsPerSecond
                ELSE secondTimestamp * MsPerSecond + MsOffset(index - 1, tickCount))]

\* lines 313-339: processedData before the sort
RECURSIVE AdjustAll(_, _)
AdjustAll(data, keys) ==
    IF keys = <<>> THEN <<>>
    ELSE AdjustGroup(TicksOfSecond(data, Head(keys)), Head(keys))
         \o AdjustAll(data, Tail(keys))

\* the comparator of line 342
CompareAdjusted(a, b) == a.adjustedTimestamp - b.adjustedTimestamp

\* no sort: the groups stay in order of first appearance
SortByAdjusted_None(entries) == entries

\* line 342: processedData.sort(comparator).  Array.prototype.sort is stable:
\* an entry comes after the entries that compare smaller and after the
\* earlier entries that compare equal
StablePlace(entries) ==
    LET n == Len(entries)
        before(j) == {i \in 1..n :
                        \/ CompareAdjusted(entries[i], entries[j]) < 0
                        \/ CompareAdjusted(entries[i], entries[j]) = 0 /\ i < j}
    IN  [j \in 1..n |-> Cardinality(before(j)) + 1] \o <<>>

\* the entries laid out by their places
Arrange(entries, place) ==
    [p \in 1..Len(entries) |-> entries[CHOOSE j \in 1..Len(entries) : place[j] = p]]

SortByAdjusted(entries) == Arrange(entries, StablePlace(entries))

preprocessTimestamps(data) ==
    IF Len(data) = 0 THEN data
    ELSE SortByAdjusted(AdjustAll(data, SecondKeys(data)))

(***************************************************************************)
(* parseBinaryLevel2Data (api.js 208-288).  The mapping string is held as  *)
(* its bytes (the model's files are ASCII, which TextDecoder maps byte for *)
(* byte), an exchange label as the bytes of the string, undefined and the  *)
(* empty string both as <<>>.                                              *)
(***************************************************************************)
L2HeaderSize == 12

l2RowSize == 14

Comma == 44

Colon == 58

Digit0 == 48

NaN == -1

UNKNOWN == <<85, 78, 75, 78, 79, 87, 78>>   \* "UNKNOWN"

\* lines 220 and 224: the two header reads
L2HeaderReadable(buf) == InBounds(buf, 0, 8) /\ InBounds(buf, 8, 4)

\* line 228: buffer.slice(offset, offset + mappingLength); slice stops at the
\* end of the buffer
MappingBytes(buf, offset, mappingLength) ==
    SubSeq(buf, offset + 1,
           IF offset + mappingLength <= Len(buf) THEN offset + mappingLength ELSE Len(buf))

\* String.prototype.split on a one-character separator
RECURSIVE Split(_, _)
Split(str, separator) ==
    LET at == {i \in 1..Len(str) : str[i] = separator}
        first == CHOOSE i \in at : \A j \in at : i <= j
    IN  IF at = {} THEN <<str>>
        ELSE <<SubSeq(str, 1, first - 1)>> \o Split(SubSeq(str, first + 1, Len(str)), separator)

\* parseInt(code): the value of the leading decimal digits, NaN when the string
\* does not start with one (the model's mappings carry no sign, white space or
\* 0x prefix)
RECURSIVE DigitsValue(_, _)
DigitsValue(str, acc) ==
    IF str = <<>> \/ Head(str) < Digit0 \/ Head(str) > Digit0 + 9 THEN acc
    ELSE DigitsValue(Tail(str), 10 * acc + (Head(str) - Digit0))

ParseInt(str) ==
    IF str = <<>> \/ Head(str) < Digit0 \/ Head(str) > Digit0 + 9 THEN NaN
    ELSE DigitsValue(str, 0)

\* lines 233-237: exchangeMap[exchangeCode] after the forEach; a later pair
\* with the same code overwrites an earlier one, a pair without a colon
\* stores undefined
ExchangeMapGet(mappingStr, exchangeCode) ==
    LET pairs == Split(mappingStr, Comma)
        keyed == {p \in 1..Len(pairs) : ParseInt(Split(pairs[p], Colon)[1]) = exchangeCode}
        last == CHOOSE p \in keyed : \A q \in keyed : q <= p
        parts == Split(pairs[last], Colon)
    IN  IF keyed = {} THEN <<>>
        ELSE IF Len(parts) >= 2 THEN parts[2] ELSE <<>>

\* a lookup that leaves a missing label as it is
ResolveExchange_Raw(exchange) == exchange

\* line 266: exchangeMap[exchangeCode] || 'UNKNOWN'
ResolveExchange(exchange) == IF exchange = <<>> THEN UNKNOWN ELSE exchange

\* toFixed(4) and parseFloat, line 274: a price with four fractional digits,
\* held in ten-thousandths
FixedScale == 10000

\* the least j with a * 2^j >= b, for a > 0
RECURSIVE Doublings(_, _)
Doublings(a, b) == IF a >= b THEN 0 ELSE 1 + Doublings(2 * a, b)

\* line 265 in IEEE-754 double arithmetic: the double nearest to
\* a / PRICE_SCALE (a > 0) lies below the exact quotient.  With
\* e = floor(log2(a / PRICE_SCALE)) and s = 52 - e the double is q / 2^s, q the
\* integer nearest to a * 2^s / PRICE_SCALE, which lies below it exactly when
\* the remainder r of a * 2^s by PRICE_SCALE is positive and less than half
QuotientRoundsDown(a) ==
    LET e == IF a >= PRICE_SCALE THEN FloorLog2(a \div PRICE_SCALE)
             ELSE -Doublings(a, PRICE_SCALE)
        r == MulPow2Mod(a, 52 - e, PRICE_SCALE)
    IN  0 < r /\ 2 * r < PRICE_SCALE

\* parseFloat((cumulativePrice / PRICE_SCALE).toFixed(4)), lines 265 and 274.
\* toFixed takes the n for which n / 10^4 is nearest to the double, the larger
\* n of two equally near: a dropped digit under 5 rounds toward zero, one over
\* 5 away from it, and a dropped 5 goes the way the double lies from the
\* exact quotient
RoundedPrice(cumulativePrice) ==
    LET abs == IF cumulativePrice < 0 THEN -cumulativePrice ELSE cumulativePrice
        step == PRICE_SCALE \div FixedScale
        n0 == abs \div step
        dropped == abs % step
        n == IF 2 * dropped < step THEN n0
             ELSE IF 2 * dropped > step THEN n0 + 1
             ELSE IF QuotientRoundsDown(abs) THEN n0 ELSE n0 + 1
    IN  IF cumulativePrice < 0 THEN -n ELSE n

\* the five reads of one row, lines 254-258
L2RowReadable(buf, rowOffset) ==
    /\ InBounds(buf, rowOffset, 4)
    /\ InBounds(buf, rowOffset + 4, 4)
    /\ InBounds(buf, rowOffset + 8, 4)
    /\ InBounds(buf, rowOffset + 12, 1)
    /\ InBounds(buf, rowOffset + 13, 1)

\* the sum of the int32 at `field` of rows 0 .. i
RECURSIVE SumField(_, _, _, _)
SumField(buf, offset, field, i) ==
    IF i < 0 THEN 0
    ELSE SumField(buf, offset, field, i - 1) + getInt32(buf, offset + i * l2RowSize + field)

\* a time that takes the last row's delta alone
CumulativeTimeMs_LastDelta(buf, offset, initialTimestampMs, i) ==
    initialTimestampMs + getInt32(buf, offset + i * l2RowSize)

\* lines 247 and 261: cumulativeTimeMs after row i (0-indexed)
CumulativeTimeMs(buf, offset, initialTimestampMs, i) ==
    initialTimestampMs + SumField(buf, offset, 0, i)

\* lines 248 and 262: cumulativePrice after row i
CumulativePrice(buf, offset, i) == SumField(buf, offset, 4, i)

\* lines 251-278: the entry pushed for row i.  new Date(ms).toISOString()
\* writes the integer ms in full, so timestamp is held as that integer
L2DecodeRow(buf, offset, i, initialTimestampMs, mappingStr) ==
    LET rowOffset == offset + i * l2RowSize
        cumulativeTimeMs == CumulativeTimeMs(buf, offset, initialTimestampMs, i)
    IN  [timestamp |-> cumulativeTimeMs,
         timestamp_ms |-> cumulativeTimeMs,
         price |-> RoundedPrice(CumulativePrice(buf, offset, i)),
         size |-> getInt32(buf, rowOffset + 8),
         exchange |-> ResolveExchange(ExchangeMapGet(mappingStr, getUint8(buf, rowOffset + 13))),
         entry_type |-> getUint8(buf, rowOffset + 12)]

\* a loop over the whole rows alone
L2Iterations_WholeRows(length, offset) ==
    IF length - offset <= 0 THEN 0 ELSE (length - offset) \div l2RowSize

\* lines 244 and 250: the number of i >= 0 with i < (length - offset) / 14, the
\* division being exact: a partial row gets an iteration of its own, a
\* negative quotient none
L2Iterations(length, offset) ==
    IF length - offset <= 0 THEN 0 ELSE (length - offset + l2RowSize - 1) \div l2RowSize

\* an out-of-bounds read raises a RangeError that leaves the function, and the
\* entries pushed so far go with it
parseBinaryLevel2Data(buf) ==
    IF ~L2HeaderReadable(buf) THEN [error |-> "RangeError", data |-> <<>>]
    ELSE LET initialTimestampMs == getBigUint64(buf, 0)
             mappingLength == getUint32(buf, 8)
             mappingStr == MappingBytes(buf, L2HeaderSize, mappingLength)
             offset == L2HeaderSize + mappingLength
             iterations == L2Iterations(Len(buf), offset)
             unreadable == {i \in 0..(iterations - 1) :
                                ~L2RowReadable(buf, offset + i * l2RowSize)}
         IN  IF unreadable # {} THEN [error |-> "RangeError", data |-> <<>>]
             ELSE [error |-> "none",
                   data |-> [k \in 1..iterations |->
                                L2DecodeRow(buf, offset, k - 1, initialTimestampMs,
                                            mappingStr)]]

(***************************************************************************)
(* The tick files the model loads.  A file is generated from a header and  *)
(* rows the way the format comment of parseBinaryData (lines 129-131) lays *)
(* them out, then cut to `length` bytes.  Row i carries bid size i, so     *)
(* every tick of a file is told from the others by its data.               *)
(***************************************************************************)
RECURSIVE BytesLE(_, _)
BytesLE(n, size) ==
    IF size = 0 THEN <<>> ELSE <<n % 256>> \o BytesLE(n \div 256, size - 1)

SignedBytesLE(n, size) ==
    IF n >= 0 THEN BytesLE(n, size)
    ELSE [i \in 1..size |-> 255 - BytesLE(-n - 1, size)[i]]

RowBytes(row) ==
    SignedBytesLE(row.deltaTimeUs, 8) \o SignedBytesLE(row.priceBid, 4)
    \o SignedBytesLE(row.priceAsk, 4) \o SignedBytesLE(row.sizeBid, 4)
    \o SignedBytesLE(row.sizeAsk, 4)

RowsBytes(rows) ==
    [p \in 1..(Len(rows) * rowSize) |->
        RowBytes(rows[((p - 1) \div rowSize) + 1])[((p - 1) % rowSize) + 1]]

FullBytes(file) ==
    file.magic \o <<1>> \o BytesLE(file.numRows, 4)
    \o BytesLE(file.initialTimestampUs, 8) \o RowsBytes(file.rows) \o file.padding

FileBytes(file) == SubSeq(FullBytes(file), 1, file.length)

FullLength(numRows) == HeaderSize + rowSize * numRows

InitialTimestamps == {5000000, 5999500}

DeltaChoices == {0, 300000, 700000, -1500000}

BidChoices == {150000, 150100}

RowChoices == DeltaChoices \X BidChoices

MakeRow(i, choice) ==
    [deltaTimeUs |-> choice[1], priceBid |-> choice[2], priceAsk |-> choice[2] + 200,
     sizeBid |-> i * SIZE_SCALE, sizeAsk |-> 50]

\* well-formed files of up to MaxRows rows
ValidFiles ==
    {[magic |-> Magic, numRows |-> n, initialTimestampUs |-> t0,
      rows |-> [i \in 1..n |-> MakeRow(i, c[i])], padding |-> <<>>,
      length |-> FullLength(n)] :
        <<n, t0, c>> \in UNION {{<<n, t0, c>> : t0 \in InitialTimestamps,
                                               c \in [1..n -> RowChoices]} : n \in 0..MaxRows}}

\* the rows of the files that are cut, padded or given another magic
StandardRows(n) ==
    [i \in 1..n |-> MakeRow(i, <<(i - 1) * 400000, 150000 + 100 * i>>)]

\* files cut anywhere short of the length their header declares
TruncatedFiles ==
    {[magic |-> Magic, numRows |-> n, initialTimestampUs |-> 5000000,
      rows |-> StandardRows(n), padding |-> <<>>, length |-> len] :
        <<n, len>> \in UNION {{<<n, len>> : len \in 0..(FullLength(n) - 1)} : n \in 0..MaxRows}}

BadMagics == {<<84, 79, 67, 75>>, <<116, 105, 99, 107>>, <<84, 73, 67, 0>>}

\* files with another magic, whole or cut anywhere
BadMagicFiles ==
    {[magic |-> m, numRows |-> n, initialTimestampUs |-> 5000000,
      rows |-> StandardRows(n), padding |-> <<>>, length |-> len] :
        <<m, n, len>> \in UNION {{<<m, n, len>> : m \in BadMagics, len \in 0..FullLength(n)} :
                                 n \in 0..MaxRows}}

\* well-formed files followed by bytes the header does not count
PaddedFiles ==
    {[magic |-> Magic, numRows |-> n, initialTimestampUs |-> 5000000,
      rows |-> StandardRows(n), padding |-> <<0, 0, 0, 0, 0>>,
      length |-> FullLength(n) + 5] : n \in 0..MaxRows}

\* well-formed files whose rows all fall in one second: every size up to
\* MaxBurst, one of as many rows as the second has milliseconds, and one of
\* TieBurst rows, more than the second has milliseconds
BurstFiles ==
    {[magic |-> Magic, numRows |-> n, initialTimestampUs |-> 5000000,
      rows |-> [i \in 1..n |-> MakeRow(i, <<(i - 1) * 100, 150000>>)], padding |-> <<>>,
      length |-> FullLength(n)] : n \in ((MaxRows + 1)..MaxBurst) \cup {MsPerSecond, TieBurst}}

InputFiles == ValidFiles \cup TruncatedFiles \cup BadMagicFiles \cup PaddedFiles \cup BurstFiles

(***************************************************************************)
(* The level-2 files the model loads, laid out as the format comment of    *)
(* parseBinaryLevel2Data (lines 209-214) has them, then cut to `length`    *)
(* bytes.  Row i carries size i.                                           *)
(***************************************************************************)
MaxL2Rows == 2

L2RowBytes(row) ==
    SignedBytesLE(row.deltaTimeMs, 4) \o SignedBytesLE(row.priceDelta, 4)
    \o SignedBytesLE(row.size, 4) \o <<row.entryType, row.exchangeCode>>

RECURSIVE L2RowsBytes(_)
L2RowsBytes(rows) ==
    IF rows = <<>> THEN <<>> ELSE L2RowBytes(Head(rows)) \o L2RowsBytes(Tail(rows))

L2FullBytes(file) ==
    BytesLE(file.initialTimestampMs, 8) \o BytesLE(file.mappingLength, 4)
    \o file.mapping \o L2RowsBytes(file.rows)

L2FileBytes(file) == SubSeq(L2FullBytes(file), 1, file.length)

L2FullLength(mapping, numRows) == L2HeaderSize + Len(mapping) + l2RowSize * numRows

\* "0:Q,1:N" and "1:N"
Mappings == {<<48, 58, 81, 44, 49, 58, 78>>, <<49, 58, 78>>}

StandardMapping == <<48, 58, 81, 44, 49, 58, 78>>

\* delta-time, delta-price, entry type, exchange code; code 7 is in no mapping
L2RowChoices ==
    {<<0, 150001, 0, 0>>, <<250, 4, 1, 1>>, <<-100, -10, 0, 7>>,
     <<1000, 15, 1, 0>>, <<250, -150005, 0, 1>>, <<40, 1, 1, 7>>}

MakeL2Row(i, choice) ==
    [deltaTimeMs |-> choice[1], priceDelta |-> choice[2], size |-> i,
     entryType |-> choice[3], exchangeCode |-> choice[4]]

\* well-formed files of up to MaxL2Rows rows
ValidL2Files ==
    {[initialTimestampMs |-> 7000, mappingLength |-> Len(m), mapping |-> m,
      rows |-> [i \in 1..n |-> MakeL2Row(i, c[i])],
      length |-> L2FullLength(m, n)] :
        <<n, m, c>> \in UNION {{<<n, m, c>> : m \in Mappings,
                                              c \in [1..n -> L2RowChoices]} : n \in 0..MaxL2Rows}}

\* the rows of the files that are cut or declare too long a mapping
StandardL2Rows(n) ==
    [i \in 1..n |-> MakeL2Row(i, <<250 * i, IF i = 1 THEN 150001 ELSE 10 * i, i % 2, i % 2>>)]

\* files cut anywhere: in the header, in the mapping string, in a row or
\* between two rows
CutL2Files ==
    {[initialTimestampMs |-> 7000, mappingLength |-> Len(StandardMapping),
      mapping |-> StandardMapping, rows |-> StandardL2Rows(n), length |-> len] :
        <<n, len>> \in UNION {{<<n, len>> : len \in 0..(L2FullLength(StandardMapping, n) - 1)} :
                               n \in 0..MaxL2Rows}}

\* whole files whose header declares a mapping string longer than all the
\* bytes that follow it
OverlongMappingFiles ==
    {[initialTimestampMs |-> 7000,
      mappingLength |-> Len(StandardMapping) + l2RowSize * n + excess,
      mapping |-> StandardMapping, rows |-> StandardL2Rows(n),
      length |-> L2FullLength(StandardMapping, n)] :
        <<n, excess>> \in (0..MaxL2Rows) \X {1, l2RowSize}}

L2InputFiles == ValidL2Files \cup CutL2Files \cup OverlongMappingFiles

NoL2File ==
    [initialTimestampMs |-> 0, mappingLength |-> 0, mapping |-> <<>>, rows |-> <<>>,
     length |-> 0]

\* what the level-2 fetch of lines 74-78 can give: a response that is not ok,
\* a rejection (of fetch, arrayBuffer or inflate), or the bytes of a file
L2Sources ==
    {[response |-> r, file |-> NoL2File] : r \in {"notOk", "rejected"}}
    \cup {[response |-> "ok", file |-> f] : f \in L2InputFiles}

\* the tick files loaded with every level-2 source: a whole one, a cut one
\* and one with another magic
PairedTickFiles ==
    {[magic |-> m, numRows |-> 2, initialTimestampUs |-> 5000000,
      rows |-> StandardRows(2), padding |-> <<>>, length |-> len] :
        <<m, len>> \in {<<Magic, FullLength(2)>>, <<Magic, FullLength(2) - 1>>,
                        <<<<84, 79, 67, 75>>, FullLength(2)>>}}

\* every tick file without a level-2 file, and the paired ones with each source
LoadInputs ==
    (InputFiles \X {[response |-> "notOk", file |-> NoL2File]})
    \cup (PairedTickFiles \X L2Sources)

(***************************************************************************)
(* ChartArea (part_000): the aggregation functions.  A time t is held in   *)
(* milliseconds, a bucket time in whole seconds.  Prices are held in units *)
(* of half a price step, bid and ask even, so that (bid + ask) / 2 is the  *)
(* exact mid.  series.update and series.setData hand points to the         *)
(* charting library, which keeps no state of the component: they are not   *)
(* part of the model.                                                      *)
(***************************************************************************)
\* a bucket key that is the tick's whole second, whatever the timeframe
BucketTime_Unaligned(t, tf) == t \div MsPerSecond

\* lines 294, 329, 384: Math.floor(t / tf) * tf
BucketTime(t, tf) == (t \div (tf * MsPerSecond)) * tf

\* line 380
Mid(bid, ask) == (bid + ask) \div 2

EmptyLineData == [bid |-> <<>>, ask |-> <<>>, mid |-> <<>>]

\* lines 298-300 and 314-316: the current bucket pushed on the three arrays;
\* `current` is <<>> while currentTime is null
PushCurrent(out, current) ==
    IF current = <<>> THEN out
    ELSE [bid |-> Append(out.bid, [time |-> current[1].time, value |-> current[1].bid]),
          ask |-> Append(out.ask, [time |-> current[1].time, value |-> current[1].ask]),
          mid |-> Append(out.mid, [time |-> current[1].time, value |-> current[1].mid])]

\* lines 293-317: the forEach and the final push
RECURSIVE LineRuns(_, _, _, _)
LineRuns(ticks, tf, current, out) ==
    IF ticks = <<>> THEN PushCurrent(out, current)
    ELSE LET tick == Head(ticks)
             bucketTime == BucketTime(tick.time, tf)
             seeded == <<[time |-> bucketTime, bid |-> tick.bid, ask |-> tick.ask,
                          mid |-> tick.mid]>>
         IN  IF current = <<>> \/ current[1].time # bucketTime
             THEN LineRuns(Tail(ticks), tf, seeded, PushCurrent(out, current))
             ELSE LineRuns(Tail(ticks), tf, seeded, out)

\* lines 287-320
aggregateLineData(ticks, tf) ==
    IF Len(ticks) = 0 THEN EmptyLineData
    ELSE LineRuns(ticks, tf, <<>>, EmptyLineData)

Max(a, b) == IF a >= b THEN a ELSE b

Min(a, b) == IF a <= b THEN a ELSE b

\* lines 334-340 and 403: a candle opened by one mid
NewCandle(bucketTime, mid) ==
    [time |-> bucketTime, open |-> mid, high |-> mid, low |-> mid, close |-> mid]

\* a fold that never raises the high
FoldCandle_NoHigh(candle, mid) ==
    [candle EXCEPT !.low = Min(candle.low, mid), !.close = mid]

\* lines 342-344 of the full aggregation: a mid folded into the open candle
FoldCandle(candle, mid) ==
    [candle EXCEPT !.high = Max(candle.high, mid), !.low = Min(candle.low, mid),
                   !.close = mid]

\* lines 328-348: the forEach and the final push; `currentCandle` is <<>>
\* while it is null
RECURSIVE CandleRuns(_, _, _, _)
CandleRuns(ticks, tf, currentCandle, candles) ==
    IF ticks = <<>> THEN candles \o currentCandle
    ELSE LET tick == Head(ticks)
             bucketTime == BucketTime(tick.time, tf)
         IN  IF currentCandle = <<>> \/ currentCandle[1].time # bucketTime
             THEN CandleRuns(Tail(ticks), tf, <<NewCandle(bucketTime, tick.mid)>>,
                             candles \o currentCandle)
             ELSE CandleRuns(Tail(ticks), tf, <<FoldCandle(currentCandle[1], tick.mid)>>,
                             candles)

\* lines 322-350
aggregateCandleData(ticks, tf) ==
    IF Len(ticks) = 0 THEN <<>>
    ELSE CandleRuns(ticks, tf, <<>>, <<>>)

(***************************************************************************)
(* ChartArea: calculateEMAs (lines 352-374).  ta.ema is oakscriptjs's, not *)
(* the repository's, and nothing is taken for granted about it: its i-th   *)
(* value is held as what it is computed from, the period, the source array *)
(* and the index.  Which of the values are null or NaN is the library's to *)
(* decide, so an EMA series is held as the points of lines 363-365 and     *)
(* 368-370, of which the filters of lines 366 and 371 keep those whose     *)
(* value is a number: a series held as <<>> is empty, of any other the     *)
(* model tells what each point that is kept was computed from.             *)
(***************************************************************************)
EmptyEmaData == [ema9 |-> <<>>, ema20 |-> <<>>]

ta_ema(source, period) ==
    [i \in 1..Len(source) |-> [period |-> period, source |-> source, index |-> i]]

\* lines 363-371: the values with the times of the mid points
EmaPoints(midData, period) ==
    LET closePrices == [i \in 1..Len(midData) |-> midData[i].value]
        values == ta_ema(closePrices, period)
    IN  [i \in 1..Len(midData) |-> [time |-> midData[i].time, value |-> values[i]]]

calculateEMAs(midData) ==
    IF Len(midData) = 0 THEN EmptyEmaData
    ELSE [ema9 |-> EmaPoints(midData, 9), ema20 |-> EmaPoints(midData, 20)]

(***************************************************************************)
(* ChartArea: the three effects, as functions of the refs.                 *)
(***************************************************************************)
\* a line series that gets a new point for every tick
updateLineSeries_AlwaysPush(data, bucketTime, value) ==
    Append(data, [time |-> bucketTime, value |-> value])

\* lines 386-395
updateLineSeries(data, bucketTime, value) ==
    IF Len(data) = 0 \/ data[Len(data)].time # bucketTime
    THEN Append(data, [time |-> bucketTime, value |-> value])
    ELSE [data EXCEPT ![Len(data)].value = value]

\* a candle whose close moves without its high and low
UpdateLastCandle_CloseOnly(lastCandle, mid) == [lastCandle EXCEPT !.close = mid]

\* lines 407-410 of the live path: a mid folded into the last candle
UpdateLastCandle(lastCandle, mid) ==
    [lastCandle EXCEPT !.high = Max(lastCandle.high, mid),
                       !.low = Min(lastCandle.low, mid), !.close = mid]

\* a candle that is opened again by every tick of its bucket
updateCandleData_Reopen(candleData, bucketTime, mid) ==
    IF Len(candleData) = 0 \/ candleData[Len(candleData)].time # bucketTime
    THEN Append(candleData, NewCandle(bucketTime, mid))
    ELSE [candleData EXCEPT ![Len(candleData)] = NewCandle(bucketTime, mid)]

\* lines 401-412
updateCandleData(candleData, bucketTime, mid) ==
    IF Len(candleData) = 0 \/ candleData[Len(candleData)].time # bucketTime
    THEN Append(candleData, NewCandle(bucketTime, mid))
    ELSE [candleData EXCEPT ![Len(candleData)] = UpdateLastCandle(@, mid)]

\* the refs an effect reads and writes
Refs == [allTicksData |-> allTicksData, aggregatedLineData |-> aggregatedLineData,
         aggregatedCandleData |-> aggregatedCandleData, emaData |-> emaData,
         lastQuoteCountRef |-> lastQuoteCountRef]

\* a timeframe effect that rebuilds the lines and leaves the candles
TimeframeEffect_LinesOnly(refs, tf) ==
    IF Len(refs.allTicksData) = 0 THEN refs
    ELSE [refs EXCEPT !.aggregatedLineData = aggregateLineData(refs.allTicksData, tf),
                      !.emaData = calculateEMAs(aggregateLineData(refs.allTicksData, tf).mid)]

\* useEffect[timeframe], lines 235-262
TimeframeEffect(refs, tf) ==
    IF Len(refs.allTicksData) = 0 THEN refs
    ELSE [refs EXCEPT !.aggregatedLineData = aggregateLineData(refs.allTicksData, tf),
                      !.aggregatedCandleData = aggregateCandleData(refs.allTicksData, tf),
                      !.emaData = calculateEMAs(aggregateLineData(refs.allTicksData, tf).mid)]

\* a reset that leaves the EMA series as they are
ClearRefs_KeepEma(refs) ==
    [refs EXCEPT !.allTicksData = <<>>, !.aggregatedLineData = EmptyLineData,
                 !.aggregatedCandleData = <<>>]

\* lines 275-278
ClearRefs(refs) ==
    [refs EXCEPT !.allTicksData = <<>>, !.aggregatedLineData = EmptyLineData,
                 !.aggregatedCandleData = <<>>, !.emaData = EmptyEmaData]

\* useEffect[sessionData.stats?.quoteCount], lines 264-285
QuoteCountEffect(refs, currentQuoteCount) ==
    LET cleared == IF refs.lastQuoteCountRef > 0 /\ currentQuoteCount = 0
                   THEN ClearRefs(refs)
                   ELSE refs
    IN  [cleared EXCEPT !.lastQuoteCountRef = currentQuoteCount]

\* useEffect[sessionData.quote, timeframe], lines 376-430
QuoteEffect(refs, q, tf) ==
    IF q = <<>> THEN refs
    ELSE LET t == q[1].t
             bid == q[1].bid
             ask == q[1].ask
             mid == Mid(bid, ask)
             bucketTime == BucketTime(t, tf)
             line == refs.aggregatedLineData
             midData == updateLineSeries(line.mid, bucketTime, mid)
         IN  [refs EXCEPT
                 !.allTicksData = Append(@, [time |-> t, bid |-> bid, ask |-> ask, mid |-> mid]),
                 !.aggregatedLineData =
                     [bid |-> updateLineSeries(line.bid, bucketTime, bid),
                      ask |-> updateLineSeries(line.ask, bucketTime, ask),
                      mid |-> midData],
                 !.aggregatedCandleData = updateCandleData(@, bucketTime, mid),
                 !.emaData = calculateEMAs(midData)]

\* the component as mounted, lines 9-18, before any quote
ChartMounted ==
    /\ quote = <<>>
    /\ quoteCount = 0
    /\ lastQuoteCountRef = 0
    /\ allTicksData = <<>>
    /\ aggregatedLineData = EmptyLineData
    /\ aggregatedCandleData = <<>>
    /\ emaData = EmptyEmaData
    /\ delivered = <<>>

(***************************************************************************)
(* api.loadSessionData (api.js 54-95): decode, then synthesize.            *)
(***************************************************************************)
\* the level-2 state before the try block of line 73
Level2Pending ==
    /\ l2Pc = "pending"
    /\ l2Error = "none"
    /\ level2Data = <<>>
    /\ attachedLevel2 = <<>>

LoadInit ==
    /\ \E input \in LoadInputs :
           /\ encoded = input[1]
           /\ l2Response = input[2].response
           /\ l2Encoded = input[2].file
    /\ buffer = FileBytes(encoded)
    /\ l2Buffer = L2FileBytes(l2Encoded)
    /\ loadPc = "fetched"
    /\ loadError = "none"
    /\ parsedData = <<>>
    /\ processedData = <<>>
    /\ Level2Pending
    /\ timeframe = 1
    /\ ChartMounted

\* line 69; an exception leaves loadSessionData
ParseBinaryData ==
    /\ loadPc = "fetched"
    /\ LET result == parseBinaryData(buffer)
       IN  /\ loadError' = result.error
           /\ parsedData' = result.data
           /\ loadPc' = IF result.error = "none" THEN "parsed" ELSE "failed"
    /\ UNCHANGED <<buffer, encoded, processedData, chartVars>>
    /\ UNCHANGED <<l2Response, l2Buffer, l2Encoded, l2Pc, l2Error, level2Data,
                   attachedLevel2>>

\* a catch block that throws the error on
CaughtLevel2_Rethrow(pc) == "failed"

\* lines 82-84: the catch block logs the error, and loadSessionData goes on
\* from where it was
CaughtLevel2(pc) == pc

\* lines 72-84: the try block, whichever way it ends
LoadLevel2 ==
    /\ loadPc = "parsed"
    /\ l2Pc = "pending"
    /\ LET result == parseBinaryLevel2Data(l2Buffer)
       IN  CASE l2Response = "rejected" ->
                    /\ l2Pc' = "caught"
                    /\ l2Error' = "FetchError"
                    /\ level2Data' = <<>>
                    /\ loadPc' = CaughtLevel2(loadPc)
             [] l2Response = "notOk" ->
                    /\ l2Pc' = "skipped"
                    /\ l2Error' = "none"
                    /\ level2Data' = <<>>
                    /\ loadPc' = loadPc
             [] l2Response = "ok" /\ result.error # "none" ->
                    /\ l2Pc' = "caught"
                    /\ l2Error' = result.error
                    /\ level2Data' = <<>>
                    /\ loadPc' = CaughtLevel2(loadPc)
             [] l2Response = "ok" /\ result.error = "none" ->
                    /\ l2Pc' = "decoded"
                    /\ l2Error' = "none"
                    /\ level2Data' = <<result.data>>
                    /\ loadPc' = loadPc
    /\ UNCHANGED <<buffer, encoded, loadError, parsedData, processedData, chartVars>>
    /\ UNCHANGED <<l2Response, l2Buffer, l2Encoded, attachedLevel2>>

\* lines 87-94: level2Data is attached when it is truthy, as every array is
PreprocessTimestamps ==
    /\ loadPc = "parsed"
    /\ l2Pc # "pending"
    /\ processedData' = preprocessTimestamps(parsedData)
    /\ attachedLevel2' = level2Data
    /\ loadPc' = "done"
    /\ UNCHANGED <<buffer, encoded, loadError, parsedData, chartVars>>
    /\ UNCHANGED <<l2Response, l2Buffer, l2Encoded, l2Pc, l2Error, level2Data>>

LoadNext == ParseBinaryData \/ LoadLevel2 \/ PreprocessTimestamps

SpecLoad == LoadInit /\ [][LoadNext]_vars

(***************************************************************************)
(* ChartArea as its props change.  A render commits its effects in the     *)
(* order they are written: useEffect[timeframe] (235), useEffect[quote     *)
(* count] (264), useEffect[quote, timeframe] (376), each only when one of  *)
(* its dependencies changed.                                               *)
(***************************************************************************)
Timeframes == {1, 10, 60}

QuoteTimes == {500, 1500, 10200}

QuotePrices == {<<30000, 30020>>, <<30040, 30060>>, <<30000, 30060>>}

Quotes == {[t |-> t, bid |-> p[1], ask |-> p[2]] : t \in QuoteTimes, p \in QuotePrices}

Commit(refs) ==
    /\ allTicksData' = refs.allTicksData
    /\ aggregatedLineData' = refs.aggregatedLineData
    /\ aggregatedCandleData' = refs.aggregatedCandleData
    /\ emaData' = refs.emaData
    /\ lastQuoteCountRef' = refs.lastQuoteCountRef

Init ==
    /\ buffer = <<>>
    /\ encoded = <<>>
    /\ loadPc = "idle"
    /\ loadError = "none"
    /\ parsedData = <<>>
    /\ processedData = <<>>
    /\ l2Response = "notOk"
    /\ l2Buffer = <<>>
    /\ l2Encoded = <<>>
    /\ Level2Pending
    /\ timeframe \in Timeframes
    /\ ChartMounted

\* a new sessionData.quote, counted in sessionData.stats
LiveTick(q) ==
    /\ Len(allTicksData) < MaxTicks
    /\ quote' = <<q>>
    /\ quoteCount' = quoteCount + 1
    /\ Commit(QuoteEffect(QuoteCountEffect(Refs, quoteCount'), quote', timeframe))
    /\ delivered' = Append(delivered, q)
    /\ UNCHANGED <<timeframe, loadVars>>

\* a new timeframe prop: the quote effect runs again on the quote it has
TimeframeChange(tf) ==
    /\ tf # timeframe
    /\ quote # <<>> => Len(allTicksData) < MaxTicks
    /\ timeframe' = tf
    /\ Commit(QuoteEffect(TimeframeEffect(Refs, tf), quote, tf))
    /\ UNCHANGED <<quote, quoteCount, delivered, loadVars>>

\* the session is reset: the quote count returns to zero, and the quote is
\* cleared or left as it was (on a cleared quote the quote effect runs and
\* returns at line 377, on an unchanged one it does not run)
Reset ==
    /\ quoteCount > 0
    /\ quoteCount' = 0
    /\ quote' \in {<<>>, quote}
    /\ Commit(QuoteCountEffect(Refs, 0))
    /\ delivered' = <<>>
    /\ UNCHANGED <<timeframe, loadVars>>

Next ==
    \/ \E q \in Quotes : LiveTick(q)
    \/ \E tf \in Timeframes : TimeframeChange(tf)
    \/ Reset

Spec == Init /\ [][Next]_vars

\* live ticks alone, at the timeframe the component was mounted with
LiveNext == \E q \in Quotes : LiveTick(q)

SpecLive == Init /\ [][LiveNext]_vars

(***************************************************************************)
(* Properties of the decoder and the synthesizer, under SpecLoad.          *)
(***************************************************************************)
\* the first four bytes are the ASCII literal TICK
HasTickMagic(buf) == Len(buf) >= 4 /\ \A i \in 1..4 : buf[i] = Magic[i]

\* a valid tick buffer: the magic, and all the bytes the header declares
ValidBuffer == HasTickMagic(buffer) /\ Len(buffer) >= FullLength(encoded.numRows)

\* the sum of the deltas of rows lo..hi
RECURSIVE SumDeltas(_, _, _)
SumDeltas(rows, lo, hi) ==
    IF lo > hi THEN 0
    ELSE IF lo = hi THEN rows[lo].deltaTimeUs
    ELSE LET mid == (lo + hi) \div 2
         IN  SumDeltas(rows, lo, mid) + SumDeltas(rows, mid + 1, hi)

\* the row a tick was decoded from: the generated rows carry their index as bid size
ArrivalIndex(tick) == tick.sizeBid.int

\* a synthesized tick without its adjustedTimestamp
AsParsed(entry) == [f \in DOMAIN entry \ {"adjustedTimestamp"} |-> entry[f]]

\* C2: the k-th decoded tick's timestamp is the header's initial timestamp
\* plus the sum of the deltas of rows 1..k (to the millisecond the tick keeps)
C2_CumulativeTimestamps ==
    loadPc \in {"parsed", "done"} =>
        \A k \in 1..Len(parsedData) :
            parsedData[k].timestamp =
                ToISOString(encoded.initialTimestampUs + SumDeltas(encoded.rows, 1, k))

\* C3: a valid buffer declaring N rows decodes without error to exactly N
\* ticks, the k-th from row k; for N = 0 the decoder and then the synthesizer
\* return the empty sequence
C3_ExactlyNTicks ==
    (ValidBuffer /\ loadPc # "fetched") =>
        /\ loadError = "none"
        /\ loadPc \in {"parsed", "done"}
        /\ Len(parsedData) = encoded.numRows
        /\ \A k \in 1..Len(parsedData) :
            /\ parsedData[k].priceBid = ToFixed(encoded.rows[k].priceBid, PRICE_SCALE)
            /\ parsedData[k].priceAsk = ToFixed(encoded.rows[k].priceAsk, PRICE_SCALE)
            /\ parsedData[k].sizeBid = ToFixed(encoded.rows[k].sizeBid, SIZE_SCALE)
            /\ parsedData[k].sizeAsk = ToFixed(encoded.rows[k].sizeAsk, SIZE_SCALE)
        /\ (encoded.numRows = 0 /\ loadPc = "done") => processedData = <<>>

C3_Witness ==
    ValidBuffer /\ encoded.numRows = 0 /\ loadPc = "done" /\ processedData = <<>>

\* C4: the synthesizer's output has non-decreasing adjustedTimestamp, and
\* ticks with equal adjustedTimestamp keep their arrival order
C4_NonDecreasingStable ==
    loadPc = "done" =>
        \A i, j \in 1..Len(processedData) :
            i < j =>
                /\ processedData[i].adjustedTimestamp <= processedData[j].adjustedTimestamp
                /\ processedData[i].adjustedTimestamp = processedData[j].adjustedTimestamp
                       => ArrivalIndex(processedData[i]) < ArrivalIndex(processedData[j])

C4_Witness ==
    /\ loadPc = "done"
    /\ \E k \in 1..(Len(parsedData) - 1) :
           SecondOf(parsedData[k]) > SecondOf(parsedData[k + 1])

\* C5: in a group of k ticks sharing second s, a single tick gets s and
\* otherwise the i-th tick in arrival order (0-indexed) gets
\* s + floor(i*1000/k)/1000
C5_EvenOffsets ==
    loadPc = "done" =>
        \A n \in 1..Len(processedData) :
            LET entry == processedData[n]
                s == SecondOf(entry)
                group == TicksOfSecond(parsedData, s)
                k == Len(group)
                i == CHOOSE i \in 0..(k - 1) : group[i + 1] = AsParsed(entry)
            IN  entry.adjustedTimestamp =
                    IF k = 1 THEN s * MsPerSecond
                    ELSE s * MsPerSecond + (i * MsPerSecond) \div k

\* C6: the synthesizer's output is a permutation of its input: same length,
\* every input tick exactly once, prices and sizes unchanged
C6_Permutation ==
    loadPc = "done" =>
        /\ Len(processedData) = Len(parsedData)
        /\ \A j \in 1..Len(parsedData) :
               Cardinality({n \in 1..Len(processedData) :
                                AsParsed(processedData[n]) = parsedData[j]}) = 1

C6_Witness ==
    /\ loadPc = "done"
    /\ Len(parsedData) >= 2
    /\ \E n \in 1..Len(parsedData) : AsParsed(processedData[n]) # parsedData[n]

\* C7: every adjusted time lies in [s, s+1), s the second of the tick's
\* original timestamp
C7_WithinSecond ==
    loadPc = "done" =>
        \A n \in 1..Len(processedData) :
            /\ SecondOf(processedData[n]) * MsPerSecond <= processedData[n].adjustedTimestamp
            /\ processedData[n].adjustedTimestamp
                   < (SecondOf(processedData[n]) + 1) * MsPerSecond
            /\ processedData[n].adjustedTimestamp \div MsPerSecond = SecondOf(processedData[n])

C7_Witness ==
    /\ loadPc = "done"
    /\ \E n \in 1..Len(processedData) :
           processedData[n].adjustedTimestamp > SecondOf(processedData[n]) * MsPerSecond

\* C9 as claimed: a buffer whose first four bytes are not TICK, however
\* short, fails with the format error and returns no ticks
C9_FormatErrorAlways ==
    (~HasTickMagic(buffer) /\ loadPc # "fetched") =>
        loadPc = "failed" /\ loadError = "FormatError" /\ parsedData = <<>>

\* C9 as amended: such a buffer fails and returns no ticks, with the format
\* error when it holds the 17 header bytes and with the out-of-bounds read
\* error of the header reads when it is shorter
C9_FailsNoTicks ==
    (~HasTickMagic(buffer) /\ loadPc # "fetched") =>
        /\ loadPc = "failed"
        /\ parsedData = <<>>
        /\ processedData = <<>>
        /\ loadError = IF Len(buffer) >= HeaderSize THEN "FormatError" ELSE "RangeError"

C9_Witness ==
    /\ ~HasTickMagic(buffer)
    /\ Len(buffer) > HeaderSize + rowSize
    /\ loadPc = "failed"
    /\ loadError = "FormatError"

\* C10: a buffer with the magic that holds fewer bytes than its header
\* declares fails with the out-of-bounds read error and returns no ticks,
\* not the rows that were fully present
C10_TruncatedNoPartial ==
    (HasTickMagic(buffer) /\ Len(buffer) < FullLength(encoded.numRows) /\ loadPc # "fetched") =>
        /\ loadPc = "failed"
        /\ loadError = "RangeError"
        /\ parsedData = <<>>
        /\ processedData = <<>>

C10_Witness ==
    /\ HasTickMagic(buffer)
    /\ Len(buffer) < FullLength(encoded.numRows)
    /\ Len(buffer) >= HeaderSize + rowSize
    /\ loadPc = "failed"

(***************************************************************************)
(* Properties of the level-2 decoder and of loadSessionData, under         *)
(* SpecLoad.                                                               *)
(***************************************************************************)
\* parseBinaryLevel2Data was called and has returned or thrown
L2Called == l2Response = "ok" /\ l2Pc # "pending"

\* the bytes of the buffer after the header prefix and the declared mapping string
L2Rest == Len(l2Buffer) - L2HeaderSize - l2Encoded.mappingLength

\* a well-formed level-2 buffer: the declared mapping string, then whole rows
WellFormedL2 ==
    /\ l2Encoded.mappingLength = Len(l2Encoded.mapping)
    /\ l2Encoded.length = L2FullLength(l2Encoded.mapping, Len(l2Encoded.rows))

\* the codes of a generated mapping string: the digit that opens each pair
MappedCodes(mapping) ==
    {mapping[i] - Digit0 : i \in {j \in 1..Len(mapping) : j = 1 \/ mapping[j - 1] = Comma}}

RECURSIVE SumL2(_, _, _)
SumL2(rows, field, k) == IF k = 0 THEN 0 ELSE SumL2(rows, field, k - 1) + rows[k][field]

\* C11: a level-2 buffer with a partial row after the header and the mapping
\* string fails with the out-of-bounds read error and gives no entries, not
\* the whole rows before the partial one
C11_PartialRowFails ==
    (L2Called /\ L2Rest > 0 /\ L2Rest % l2RowSize # 0) =>
        /\ l2Pc = "caught"
        /\ l2Error = "RangeError"
        /\ level2Data = <<>>
        /\ attachedLevel2 = <<>>

C11_Witness ==
    /\ L2Called
    /\ L2Rest > l2RowSize
    /\ L2Rest % l2RowSize # 0
    /\ l2Pc = "caught"
    /\ loadPc = "done"

\* C12: a level-2 buffer that holds the 12 header bytes and declares a
\* mapping string longer than the bytes after them fails with the
\* truncated-data error and never gives an entry sequence, empty or not
C12_OverlongMappingFails ==
    (L2Called /\ Len(l2Buffer) >= L2HeaderSize /\ L2Rest < 0) =>
        /\ l2Pc = "caught"
        /\ l2Error = "RangeError"
        /\ level2Data = <<>>
        /\ attachedLevel2 = <<>>

\* C13: when the level-2 stream is not there, is not fetched or does not
\* decode, the load still ends with the synthesized ticks of the tick buffer
\* and no level-2 data attached, and the level-2 block never fails the load;
\* a tick buffer without the magic or shorter than its header declares always
\* fails it, with the decoder's error
C13_Level2NeverFailsLoad ==
    /\ l2Pc # "pending" => loadPc \in {"parsed", "done"}
    /\ (loadPc = "done" /\ l2Pc \in {"skipped", "caught"}) =>
           /\ attachedLevel2 = <<>>
           /\ processedData = preprocessTimestamps(parseBinaryData(buffer).data)
    /\ (loadPc # "fetched"
        /\ (~HasTickMagic(buffer) \/ Len(buffer) < FullLength(encoded.numRows))) =>
           /\ loadPc = "failed"
           /\ loadError # "none"
           /\ l2Pc = "pending"
           /\ processedData = <<>>
    /\ loadPc = "failed" => loadError = parseBinaryData(buffer).error /\ loadError # "none"

C13_Witness ==
    /\ loadPc = "done"
    /\ l2Pc = "caught"
    /\ l2Error = "RangeError"
    /\ Len(l2Buffer) > L2HeaderSize
    /\ Len(processedData) = 2
    /\ attachedLevel2 = <<>>

\* the file with every unmapped exchange code replaced by a mapped one
Remapped(file) ==
    [file EXCEPT !.rows =
        [i \in 1..Len(file.rows) |->
            IF file.rows[i].exchangeCode \in MappedCodes(file.mapping) THEN file.rows[i]
            ELSE [file.rows[i] EXCEPT !.exchangeCode = 1]]]

WithoutExchange(entry) == [f \in DOMAIN entry \ {"exchange"} |-> entry[f]]

\* C14: a row whose exchange code is not in the mapping is decoded with the
\* label UNKNOWN and the decoding goes on: there are as many entries, and
\* every entry has the same timestamp, price, size and side, as when the code
\* is a mapped one
C14_UnknownExchangeNonFatal ==
    (L2Called /\ WellFormedL2) =>
        /\ l2Pc = "decoded"
        /\ LET data == level2Data[1]
               mapped == parseBinaryLevel2Data(L2FileBytes(Remapped(l2Encoded))).data
           IN  /\ Len(data) = Len(l2Encoded.rows)
               /\ Len(mapped) = Len(data)
               /\ \A k \in 1..Len(data) :
                      /\ WithoutExchange(data[k]) = WithoutExchange(mapped[k])
                      /\ l2Encoded.rows[k].exchangeCode \notin MappedCodes(l2Encoded.mapping)
                             => data[k].exchange = UNKNOWN

C14_Witness ==
    /\ l2Pc = "decoded"
    /\ WellFormedL2
    /\ Len(level2Data[1]) = 2
    /\ l2Encoded.rows[1].exchangeCode \notin MappedCodes(l2Encoded.mapping)
    /\ level2Data[1][1].exchange = UNKNOWN
    /\ level2Data[1][2].exchange # UNKNOWN

\* C15: in a well-formed level-2 buffer the k-th entry's time in
\* milliseconds is the header's initial timestamp plus the sum of the
\* delta-times of rows 1..k, and the entries come in row order
C15_L2CumulativeTime ==
    (L2Called /\ WellFormedL2) =>
        /\ l2Pc = "decoded"
        /\ Len(level2Data[1]) = Len(l2Encoded.rows)
        /\ \A k \in 1..Len(level2Data[1]) :
               /\ level2Data[1][k].timestamp_ms =
                      l2Encoded.initialTimestampMs + SumL2(l2Encoded.rows, "deltaTimeMs", k)
               /\ level2Data[1][k].timestamp = level2Data[1][k].timestamp_ms
               /\ level2Data[1][k].size = l2Encoded.rows[k].size
               /\ level2Data[1][k].entry_type = l2Encoded.rows[k].entryType

C15_Witness ==
    /\ l2Pc = "decoded"
    /\ WellFormedL2
    /\ Len(level2Data[1]) = 2
    /\ l2Encoded.rows[1].deltaTimeMs > 0
    /\ l2Encoded.rows[2].deltaTimeMs < 0

\* C16: in a well-formed level-2 buffer the k-th entry's price is the sum of
\* the delta-prices of rows 1..k divided by 100 000, exactly (the price is
\* held in ten-thousandths), and entries whose sums differ have different
\* prices
C16_L2ExactPrice ==
    (L2Called /\ WellFormedL2 /\ l2Pc = "decoded") =>
        LET data == level2Data[1]
            sum(k) == SumL2(l2Encoded.rows, "priceDelta", k)
        IN  /\ \A k \in 1..Len(data) : data[k].price * (PRICE_SCALE \div FixedScale) = sum(k)
            /\ \A j, k \in 1..Len(data) : sum(j) # sum(k) => data[j].price # data[k].price

(***************************************************************************)
(* Properties of the aggregator.                                           *)
(***************************************************************************)
\* the ticks of a sequence of quotes, as the full aggregation takes them
TicksOf(quotes) ==
    [i \in 1..Len(quotes) |->
        [time |-> quotes[i].t, bid |-> quotes[i].bid, ask |-> quotes[i].ask,
         mid |-> Mid(quotes[i].bid, quotes[i].ask)]]

\* C1: ticks fed one at a time through the live path from the empty state
\* leave the bid, ask, mid and candle series that one full aggregation of the
\* same ticks at the same timeframe returns (checked under SpecLive)
C1_IncrementalEqualsFull ==
    /\ aggregatedLineData = aggregateLineData(TicksOf(delivered), timeframe)
    /\ aggregatedCandleData = aggregateCandleData(TicksOf(delivered), timeframe)

C1_Witness ==
    /\ Len(delivered) = MaxTicks
    /\ Len(aggregatedCandleData) >= 2
    /\ Len(aggregatedCandleData) < Len(delivered)
    /\ \E i \in 1..(Len(delivered) - 1) : delivered[i].t > delivered[i + 1].t

\* C8: in every reachable state every candle, the open one included, has
\* low <= min(open, close) and high >= max(open, close)
C8_CandleBounds ==
    \A i \in 1..Len(aggregatedCandleData) :
        LET candle == aggregatedCandleData[i]
        IN  /\ candle.low <= Min(candle.open, candle.close)
            /\ candle.high >= Max(candle.open, candle.close)

C8_Witness ==
    \E i \in 1..Len(aggregatedCandleData) :
        LET candle == aggregatedCandleData[i]
        IN  /\ candle.low < Min(candle.open, candle.close)
            /\ candle.high > Max(candle.open, candle.close)

\* a step that delivers a live tick
IsLiveTick == quoteCount' = quoteCount + 1

\* a step that changes the timeframe prop
IsTimeframeChange == timeframe' # timeframe

\* a step that resets the session: the quote count goes from positive to zero
IsReset == quoteCount > 0 /\ quoteCount' = 0

\* `after` is `before` with one point appended when the key differs from the
\* last point's, and with the last point's value alone replaced when it matches
LineFrame(before, after, key, value) ==
    IF Len(before) = 0 \/ before[Len(before)].time # key
    THEN after = before \o <<[time |-> key, value |-> value]>>
    ELSE /\ Len(after) = Len(before)
         /\ \A i \in 1..(Len(before) - 1) : after[i] = before[i]
         /\ after[Len(after)].time = before[Len(before)].time
         /\ after[Len(after)].value = value

CandleFrame(before, after, key, mid) ==
    IF Len(before) = 0 \/ before[Len(before)].time # key
    THEN after = before \o <<[time |-> key, open |-> mid, high |-> mid, low |-> mid,
                              close |-> mid]>>
    ELSE LET last == before[Len(before)]
         IN  /\ Len(after) = Len(before)
             /\ \A i \in 1..(Len(before) - 1) : after[i] = before[i]
             /\ after[Len(after)].time = last.time
             /\ after[Len(after)].open = last.open
             /\ after[Len(after)].close = mid
             /\ after[Len(after)].high = (IF mid > last.high THEN mid ELSE last.high)
             /\ after[Len(after)].low = (IF mid < last.low THEN mid ELSE last.low)

\* C17: a live tick appends exactly one point seeded from the tick to each of
\* the bid, ask, mid and candle series when its bucket key differs from the
\* last point's, and otherwise updates the last point's value (line) or
\* high, low and close (candle), keeping its open and bucket time; every
\* earlier point is left as it was
C17_LiveTickFrame ==
    [][IsLiveTick =>
          LET q == quote'[1]
              key == (q.t \div (timeframe * MsPerSecond)) * timeframe
              mid == (q.bid + q.ask) \div 2
          IN  /\ LineFrame(aggregatedLineData.bid, aggregatedLineData'.bid, key, q.bid)
              /\ LineFrame(aggregatedLineData.ask, aggregatedLineData'.ask, key, q.ask)
              /\ LineFrame(aggregatedLineData.mid, aggregatedLineData'.mid, key, mid)
              /\ CandleFrame(aggregatedCandleData, aggregatedCandleData', key, mid)]_vars

C17_Witness ==
    /\ Len(delivered) = Len(allTicksData)
    /\ Len(aggregatedCandleData) >= 2
    /\ Len(aggregatedCandleData) < Len(allTicksData)
    /\ LET last == aggregatedCandleData[Len(aggregatedCandleData)]
       IN  last.open # last.close /\ last.high > last.close

\* C18: after a timeframe change in a state with a non-empty history, the
\* bid, ask, mid and candle series are the full aggregation, under the new
\* timeframe, of exactly the ticks delivered since the last reset
C18_TimeframeChangeRebuilds ==
    [][(IsTimeframeChange /\ Len(allTicksData) > 0) =>
          /\ aggregatedLineData' = aggregateLineData(TicksOf(delivered'), timeframe')
          /\ aggregatedCandleData' = aggregateCandleData(TicksOf(delivered'), timeframe')]_vars

\* the positions of `ticks` that open a bucket run under timeframe tf
RunStarts(ticks, tf) ==
    {j \in 1..Len(ticks) :
        j = 1 \/ BucketTime(ticks[j].time, tf) # BucketTime(ticks[j - 1].time, tf)}

\* the last position of the run that opens at `start`, of `count` ticks
RunEnd(starts, count, start) ==
    LET later == {j \in starts : j > start}
    IN  IF later = {} THEN count
        ELSE (CHOOSE j \in later : \A k \in later : j <= k) - 1

\* the start of the i-th run
NthRunStart(starts, i) ==
    CHOOSE j \in starts : Cardinality({k \in starts : k <= j}) = i

MidOf(tick) == (tick.bid + tick.ask) \div 2

\* C19: the full aggregation gives one candle and one bid, ask and mid point
\* per bucket run; the candle's open is the mid (bid+ask)/2 of the run's first
\* tick, its close the mid of the last, its high and low the greatest and
\* least mid of the run, and each line point's value the bid, ask or mid of
\* the run's last tick (stated of the history at the timeframe of the state;
\* every history is reached at every timeframe)
C19_FullAggregationRuns ==
    LET ticks == allTicksData
        candles == aggregateCandleData(ticks, timeframe)
        lines == aggregateLineData(ticks, timeframe)
        starts == RunStarts(ticks, timeframe)
        runs == Cardinality(starts)
    IN  /\ Len(candles) = runs
        /\ Len(lines.bid) = runs /\ Len(lines.ask) = runs /\ Len(lines.mid) = runs
        /\ \A i \in 1..runs :
               LET first == NthRunStart(starts, i)
                   last == RunEnd(starts, Len(ticks), first)
                   mids == {MidOf(ticks[j]) : j \in first..last}
                   time == BucketTime(ticks[first].time, timeframe)
               IN  /\ candles[i].time = time
                   /\ candles[i].open = MidOf(ticks[first])
                   /\ candles[i].close = MidOf(ticks[last])
                   /\ candles[i].high \in mids /\ \A m \in mids : m <= candles[i].high
                   /\ candles[i].low \in mids /\ \A m \in mids : m >= candles[i].low
                   /\ lines.bid[i] = [time |-> time, value |-> ticks[last].bid]
                   /\ lines.ask[i] = [time |-> time, value |-> ticks[last].ask]
                   /\ lines.mid[i] = [time |-> time, value |-> MidOf(ticks[last])]

\* two ticks of one 60-second bucket rebuilt by a change to that timeframe:
\* one candle, open the first tick's mid and close the second's
C19_Witness ==
    /\ timeframe = 60
    /\ Len(delivered) = 2
    /\ Len(allTicksData) > Len(delivered)
    /\ MidOf(delivered[1]) # MidOf(delivered[2])
    /\ Len(aggregatedCandleData) = 1
    /\ aggregatedCandleData[1].open = MidOf(delivered[1])
    /\ aggregatedCandleData[1].close = MidOf(delivered[2])
    /\ aggregatedCandleData = aggregateCandleData(allTicksData, 60)

\* the history and every series are empty
AllEmpty ==
    /\ allTicksData = <<>>
    /\ aggregatedLineData = EmptyLineData
    /\ aggregatedCandleData = <<>>
    /\ emaData = EmptyEmaData

\* the history, the line series and the candle series all hold data (the EMA
\* series are computed from the mid series, and may hold none of its points)
NoneEmpty ==
    /\ allTicksData # <<>>
    /\ aggregatedLineData.bid # <<>>
    /\ aggregatedLineData.ask # <<>>
    /\ aggregatedLineData.mid # <<>>
    /\ aggregatedCandleData # <<>>

\* C20: a session reset empties the history, the three line series, the
\* candle series and both EMA series in one step, and in no state are some of
\* them empty while others hold data: the history, the lines and the candles
\* are empty together, and with them the EMA series
C20_ResetAtomic ==
    /\ [](AllEmpty \/ NoneEmpty)
    /\ [][IsReset => AllEmpty']_vars

C20_Witness ==
    /\ quoteCount = 0
    /\ lastQuoteCountRef = 0
    /\ quote # <<>>
    /\ AllEmpty

(***************************************************************************)
(* Properties of the EMA series, the history and the series together.      *)
(***************************************************************************)
\* the two EMA series of emaData
EmaSeries == {"ema9", "ema20"}

\* C22: a live tick computes the newest EMA point alone: the points before it
\* are the ones held before the tick, and what the newest is computed from
\* holds no mid value older than the newest
C22_IncrementalEma ==
    [][IsLiveTick =>
          \A p \in EmaSeries :
              LET before == emaData[p]
                  after == emaData'[p]
                  n == Len(after)
              IN  /\ \A i \in 1..(n - 1) : i <= Len(before) /\ after[i] = before[i]
                  /\ n > 0 => Len(after[n].value.source) <= 1]_vars

\* C23: the history is the sequence of the live ticks delivered since the
\* last reset, one entry per tick, in delivery order
C23_HistoryIsDelivered == allTicksData = TicksOf(delivered)

\* C24: while no live tick has been delivered since the last reset (or since
\* the mount), the history and every series are empty
C24_EmptyUntilTick == delivered = <<>> => AllEmpty

\* the bucket times of a series, in order
TimesOf(series) == [i \in 1..Len(series) |-> series[i].time]

\* the bucket times of the series ticks are folded into: bid, ask, mid, candles
FoldedTimes ==
    {TimesOf(aggregatedLineData.bid), TimesOf(aggregatedLineData.ask),
     TimesOf(aggregatedLineData.mid), TimesOf(aggregatedCandleData)}

\* C25: in every reachable state the bid, ask and mid line series and the
\* candle series have the same length and, index by index, the same bucket
\* time
C25_SeriesAligned ==
    /\ Len(aggregatedLineData.bid) = Len(aggregatedCandleData)
    /\ Len(aggregatedLineData.ask) = Len(aggregatedCandleData)
    /\ Len(aggregatedLineData.mid) = Len(aggregatedCandleData)
    /\ \A i \in 1..Len(aggregatedCandleData) :
           /\ aggregatedLineData.bid[i].time = aggregatedCandleData[i].time
           /\ aggregatedLineData.ask[i].time = aggregatedCandleData[i].time
           /\ aggregatedLineData.mid[i].time = aggregatedCandleData[i].time

\* several buckets, rebuilt by a timeframe change, in a session that was reset
\* and left its quote behind
C25_Witness ==
    /\ Len(aggregatedCandleData) >= 2
    /\ aggregatedCandleData[1].time # aggregatedCandleData[2].time
    /\ Len(allTicksData) > Len(delivered) + 1
    /\ Len(delivered) >= 1

\* the ticks the component has taken in came in non-decreasing time order
TicksInOrder ==
    \A k \in 1..(Len(allTicksData) - 1) : allTicksData[k].time <= allTicksData[k + 1].time

\* C26: when the ticks come in non-decreasing time order, every bucket time of
\* every series (the EMA series included) is a multiple of the timeframe, the
\* bucket times of a series are strictly increasing, and every tick lies in a
\* bucket of each series it was folded into: bucket <= t < bucket + timeframe
C26_BucketsAligned ==
    TicksInOrder =>
        /\ \A times \in FoldedTimes \cup {TimesOf(emaData.ema9), TimesOf(emaData.ema20)} :
               /\ \A i \in 1..Len(times) : times[i] % timeframe = 0
               /\ \A i \in 1..(Len(times) - 1) : times[i] < times[i + 1]
        /\ \A times \in FoldedTimes :
               \A k \in 1..Len(allTicksData) :
                   \E i \in 1..Len(times) :
                       /\ times[i] * MsPerSecond <= allTicksData[k].time
                       /\ allTicksData[k].time < (times[i] + timeframe) * MsPerSecond

\* ticks in order over two buckets of ten seconds, the first holding two ticks
C26_Witness ==
    /\ TicksInOrder
    /\ timeframe = 10
    /\ Len(delivered) = 3
    /\ TimesOf(aggregatedCandleData) = <<0, 10>>
    /\ delivered[1].t < delivered[2].t

(***************************************************************************)
(* Distinct adjusted times, under SpecLoad.                                *)
(***************************************************************************)
\* the number of decoded ticks in the second of `entry`
GroupSize(entry) == Len(TicksOfSecond(parsedData, SecondOf(entry)))

\* the offsets of a group of tickCount ticks are strictly increasing
DistinctOffsets(tickCount) ==
    \A index \in 1..(tickCount - 1) : MsOffset(index - 1, tickCount) < MsOffset(index, tickCount)

\* C27: the synthesizer returns one entry per decoded tick, and two entries
\* have the same adjusted time only if they are ticks of one second that
\* holds more than 1000 ticks: with at most 1000 ticks in every second the
\* adjusted times are pairwise distinct, strictly increasing after the sort
\* (the offsets of every group size up to 1000 are compared where the group
\* of exactly 1000 has been synthesized)
C27_DistinctUpTo1000 ==
    loadPc = "done" =>
        /\ Len(processedData) = Len(parsedData)
        /\ \A i \in 1..(Len(processedData) - 1) :
               \/ processedData[i].adjustedTimestamp < processedData[i + 1].adjustedTimestamp
               \/ /\ processedData[i].adjustedTimestamp = processedData[i + 1].adjustedTimestamp
                  /\ SecondOf(processedData[i]) = SecondOf(processedData[i + 1])
                  /\ GroupSize(processedData[i]) > MsPerSecond
        /\ Len(parsedData) = MsPerSecond =>
               \A tickCount \in 2..MsPerSecond : DistinctOffsets(tickCount)

\* a second of 1001 ticks has been synthesized, and two neighbours of the
\* output share an adjusted time
C27_TieWitness ==
    /\ loadPc = "done"
    /\ Len(processedData) = TieBurst
    /\ GroupSize(processedData[1]) = TieBurst
    /\ \E i \in 1..(Len(processedData) - 1) :
           processedData[i].adjustedTimestamp = processedData[i + 1].adjustedTimestamp

\* a second of exactly 1000 ticks has been synthesized: the offsets are 0..999
C27_Witness ==
    /\ loadPc = "done"
    /\ Len(processedData) = MsPerSecond
    /\ GroupSize(processedData[1]) = MsPerSecond
    /\ processedData[MsPerSecond].adjustedTimestamp
           = processedData[1].adjustedTimestamp + MsPerSecond - 1

====
